---- MODULE Spec2Model ----
(***************************************************************************)
(* The chat session and message-exchange controller of src/src/App.jsx:    *)
(* the React component state (chatId, messages, sessions, input, loading,  *)
(* stats), the asynchronous handlers newChat, switchChat, sendMessage and  *)
(* deleteChat with the values their closures captured when they were       *)
(* invoked, the two effects that call listChats and loadChat, and the      *)
(* persistence service and inference backend they talk to.                 *)
(*                                                                         *)
(* A handler runs without interruption up to its next await; the calls it  *)
(* awaits stay in flight (sends, loads, renames, deletes, listPending)     *)
(* until an action completes or fails them and runs the continuation.      *)
(* A persistence call takes effect and resolves in one step.               *)
(***************************************************************************)
EXTENDS Integers, Sequences, FiniteSets, Bags, TLC

----------------------------------------------------------------------------
(* Bounds of the model *)

\* Date.now() and performance.now() read 0..MaxClock
MaxClock == 1
\* a sendMessage starts only while its exchange fits a log of MaxLog messages
MaxLog == 4
\* at most MaxSessions entries in the session list
MaxSessions == 2
\* at most MaxCalls calls to the persistence service and the backend in flight
MaxCalls == 3
\* at most MaxSends sendMessage calls between their first and last await
MaxSends == 2
\* at most MaxLoads loadChat calls in flight
MaxLoads == 2
\* at most MaxRenames renameChat calls in flight
MaxRenames == 1
\* at most MaxDeletes deleteChat calls in flight
MaxDeletes == 1
\* at most MaxEvents user events (handler invocations) in a run
MaxEvents == 4
\* the texts given to the token estimator alone hold at most MaxText characters
MaxText == 7

----------------------------------------------------------------------------
(* Text: a string is a sequence of characters *)

Whitespace == {" ", "\n"}

\* the texts the user types into the input box
Inputs == { <<>>, <<" ">>, <<"a">> }

\* the assistant message bodies the backend returns
Replies == { <<"o", "k">> }

\* useState('') of chatId: no active session
NoChat == -1

\* `chat-${Date.now()}`: one id per clock reading
ChatIdOf(t) == t

IDs == { ChatIdOf(t) : t \in 0..MaxClock }

defaultName == <<"N", "e", "w", " ", "C", "h", "a", "t">>

\* the sentinel contents, written word by word: a word stands for its characters
ErrNoMessage == <<"[Error:", " ", "No", " ", "message", " ", "returned]">>

ErrFetch == <<"[Error:", " ", "Unable", " ", "to", " ", "fetch", " ", "response]">>

\* String.prototype.trim
RECURSIVE TrimLeft(_)
TrimLeft(s) ==
  IF s = <<>> THEN <<>>
  ELSE IF Head(s) \in Whitespace THEN TrimLeft(Tail(s)) ELSE s

RECURSIVE TrimRight(_)
TrimRight(s) ==
  IF s = <<>> THEN <<>>
  ELSE IF s[Len(s)] \in Whitespace THEN TrimRight(SubSeq(s, 1, Len(s) - 1)) ELSE s

Trim(s) == TrimRight(TrimLeft(s))

\* slice(0, 40)
NameMax == 40

Slice(s, n) == IF Len(s) <= n THEN s ELSE SubSeq(s, 1, n)

\* replace(/\n/g, ' ')
ReplaceNewlines(s) == [i \in 1..Len(s) |-> IF s[i] = "\n" THEN " " ELSE s[i]]

----------------------------------------------------------------------------
(* Token statistics *)

\* text.split(/\s+/).length: one more than the number of whitespace runs
RECURSIVE SplitCount(_)
SplitCount(s) ==
  IF s = <<>> THEN 1
  ELSE IF Head(s) \in Whitespace
       THEN IF Len(s) > 1 /\ s[2] \in Whitespace
            THEN SplitCount(Tail(s))
            ELSE 1 + SplitCount(Tail(s))
       ELSE SplitCount(Tail(s))

\* Math.round(k / 0.75) = floor(4k/3 + 1/2)
estimateTokens(text) == (8 * SplitCount(text) + 3) \div 6

\* updatedMessages.map(m => m.content).join(' ')
RECURSIVE JoinContents(_)
JoinContents(msgs) ==
  IF msgs = <<>> THEN <<>>
  ELSE IF Len(msgs) = 1 THEN msgs[1].content
  ELSE msgs[1].content \o <<" ">> \o JoinContents(Tail(msgs))

\* a string inside JSON.stringify: a newline is written as the two characters \n
RECURSIVE JsonEscape(_)
JsonEscape(s) ==
  IF s = <<>> THEN <<>>
  ELSE (IF Head(s) = "\n" THEN <<"\\", "n">> ELSE <<Head(s)>>) \o JsonEscape(Tail(s))

\* JSON.stringify of one message; the keys, the role and the ISO timestamp hold
\* no whitespace and are written as one word each
JsonMessage(m) ==
  <<"{role:", m.role, ",content:">> \o JsonEscape(m.content) \o <<",timestamp:", "iso", "}">>

RECURSIVE JsonItems(_)
JsonItems(msgs) ==
  IF msgs = <<>> THEN <<>>
  ELSE IF Len(msgs) = 1 THEN JsonMessage(msgs[1])
  ELSE JsonMessage(msgs[1]) \o <<",">> \o JsonItems(Tail(msgs))

JsonStringify(msgs) == <<"[">> \o JsonItems(msgs) \o <<"]">>

\* elapsedSeconds > 0 ? Math.round(responseTokens / elapsedSeconds) : 0, with
\* elapsedSeconds = elapsedMs / 1000
TokensPerSecond(responseTokens, elapsedMs) ==
  IF elapsedMs > 0 THEN (2000 * responseTokens + elapsedMs) \div (2 * elapsedMs) ELSE 0

\* the object given to setStats, had totalText been built from newMessages, the
\* log before the reply
ComputeStatsBeforeReply(newMessages, updatedMessages, assistantMessage, elapsedMs) ==
  [ totalTokens |-> estimateTokens(JoinContents(newMessages)),
    tokensPerSecond |-> TokensPerSecond(estimateTokens(assistantMessage.content), elapsedMs),
    contextTokens |-> estimateTokens(JsonStringify(newMessages)) ]

\* the object given to setStats
ComputeStats(newMessages, updatedMessages, assistantMessage, elapsedMs) ==
  [ totalTokens |-> estimateTokens(JoinContents(updatedMessages)),
    tokensPerSecond |-> TokensPerSecond(estimateTokens(assistantMessage.content), elapsedMs),
    contextTokens |-> estimateTokens(JsonStringify(newMessages)) ]

InitialStats == [ totalTokens |-> 0, tokensPerSecond |-> 0, contextTokens |-> 0 ]

----------------------------------------------------------------------------
(* State *)

VARIABLES
  events,       \* the number of user events handled so far
  now,          \* the clock read by Date.now(), new Date() and performance.now()
  chatId,       \* useState(''): the active session id, NoChat when empty
  messages,     \* useState([]): the in-memory message log
  sessions,     \* useState([]): the session list, entries [id, name]
  input,        \* useState(''): the text of the input box
  loading,      \* useState(false): the pending indicator
  stats,        \* useState({totalTokens, tokensPerSecond, contextTokens})
  savedLog,     \* persistence service: the stored log of each id
  savedName,    \* persistence service: the stored name of each id, NoName if none
  listPending,  \* the startup listChats call is in flight
  loads,        \* bag of [id, by] of loadChat calls in flight, by the caller
  renames,      \* bag of [id, name] with a renameChat call in flight
  deletes,      \* bag of [id, chatId] of deleteChat handlers awaiting the service
  sends,        \* sequence of sendMessage calls between first and last await
  exchanges     \* history: the exchanges completed in the session newChat created
                \* last, NotCounted in the runs that keep no history

vars == << events, now, chatId, messages, sessions, input, loading, stats, savedLog,
           savedName, listPending, loads, renames, deletes, sends, exchanges >>

ui == << chatId, messages, sessions, input, loading, stats >>

service == << savedLog, savedName >>

inflight == << listPending, loads, renames, deletes, sends >>

NoName == <<"">>

\* const end = performance.now() has not run
NotRead == -1

NotCounted == [id |-> NoChat, ok |-> -1, clean |-> FALSE]

Message(role, content, timestamp) ==
  [ role |-> role, content |-> content, timestamp |-> timestamp ]

\* history: message m, with the id of the session whose sendMessage call made it
Created(m, id) ==
  [ role |-> m.role, content |-> m.content, timestamp |-> m.timestamp, session |-> id ]

\* the calls awaiting the persistence service or the backend
InFlight ==
  (IF listPending THEN 1 ELSE 0) + BagCardinality(loads) + BagCardinality(renames)
    + BagCardinality(deletes) + Len(sends)

RemoveAt(seq, i) == SubSeq(seq, 1, i - 1) \o SubSeq(seq, i + 1, Len(seq))

SessionIds == { sessions[i].id : i \in 1..Len(sessions) }

Init ==
  /\ events = 0
  /\ now = 0
  /\ chatId = NoChat
  /\ messages = <<>>
  /\ sessions = <<>>
  /\ input = <<>>
  /\ loading = FALSE
  /\ stats = InitialStats
  /\ savedLog = [i \in IDs |-> <<>>]
  /\ savedName = [i \in IDs |-> NoName]
  /\ listPending = TRUE
  /\ loads = EmptyBag
  /\ renames = EmptyBag
  /\ deletes = EmptyBag
  /\ sends = <<>>
  /\ exchanges = NotCounted

----------------------------------------------------------------------------
(* The persistence service (window.chatAPI) *)

\* listChats(): the stored sessions, by id
RECURSIVE ListFrom(_, _)
ListFrom(names, t) ==
  IF t > MaxClock THEN <<>>
  ELSE (IF names[ChatIdOf(t)] = NoName THEN <<>>
        ELSE << [id |-> ChatIdOf(t), name |-> names[ChatIdOf(t)]] >>)
       \o ListFrom(names, t + 1)

PersistList(names) == ListFrom(names, 0)

\* loadChat(id)
PersistLoad(logs, id) == logs[id]

\* saveChat({id, messages}): full overwrite
PersistSave(logs, id, msgs) == [logs EXCEPT ![id] = msgs]

\* renameChat({id, name})
PersistRename(names, id, name) == [names EXCEPT ![id] = name]

\* deleteChat(id): the log
PersistDeleteLog(logs, id) == [logs EXCEPT ![id] = <<>>]

\* deleteChat(id): the name
PersistDeleteName(names, id) == [names EXCEPT ![id] = NoName]

----------------------------------------------------------------------------
(* The clock *)

Tick ==
  /\ now < MaxClock
  /\ now' = now + 1
  /\ UNCHANGED << events, ui, service, inflight, exchanges >>

----------------------------------------------------------------------------
(* Startup and activation effects *)

\* useEffect(() => { if (chatId) loadChat(chatId).then(setMessages) }, [chatId]):
\* the loads in flight after the active id went from old to new
AfterChatIdEffect(ls, old, new) ==
  IF new # old /\ new # NoChat THEN ls (+) SetToBag({[id |-> new, by |-> "effect"]})
  ELSE ls

\* listChats().then(setSessions)
ListResolved ==
  /\ listPending
  /\ listPending' = FALSE
  /\ sessions' = PersistList(savedName)
  /\ UNCHANGED << events, now, chatId, messages, input, loading, stats, service, loads, renames,
                  deletes, sends, exchanges >>

ListRejected ==
  /\ listPending
  /\ listPending' = FALSE
  /\ UNCHANGED << events, now, ui, service, loads, renames, deletes, sends, exchanges >>

\* loadChat(l.id) resolves: setMessages(data), in switchChat and in the effect alike
LoadResolved(l) ==
  /\ BagIn(l, loads)
  /\ loads' = loads (-) SetToBag({l})
  /\ messages' = PersistLoad(savedLog, l.id)
  /\ UNCHANGED << events, now, chatId, sessions, input, loading, stats, service, listPending,
                  renames, deletes, sends, exchanges >>

\* loadChat(l.id) rejects: switchChat ends at its await, the effect's promise has
\* no rejection handler; setMessages is not reached
LoadRejected(l) ==
  /\ BagIn(l, loads)
  /\ loads' = loads (-) SetToBag({l})
  /\ UNCHANGED << events, now, ui, service, listPending, renames, deletes, sends, exchanges >>

----------------------------------------------------------------------------
(* Session handlers *)

\* newChat up to its await of renameChat, had it left out setMessages([])
newChatKeepsLog ==
  LET id == ChatIdOf(now)
      ls == AfterChatIdEffect(loads, chatId, id)
  IN /\ events < MaxEvents
     /\ events' = events + 1
     /\ Len(sessions) < MaxSessions
     /\ InFlight + 1 + (BagCardinality(ls) - BagCardinality(loads)) <= MaxCalls
     /\ BagCardinality(ls) <= MaxLoads
     /\ BagCardinality(renames) < MaxRenames
     /\ chatId' = id
     /\ sessions' = Append(sessions, [id |-> id, name |-> defaultName])
     /\ renames' = renames (+) SetToBag({[id |-> id, name |-> defaultName]})
     /\ loads' = ls
     /\ exchanges' = IF exchanges = NotCounted THEN exchanges
                     ELSE [id |-> id, ok |-> 0, clean |-> TRUE]
     /\ UNCHANGED << now, messages, input, loading, stats, service, listPending, deletes,
                     sends >>

\* newChat up to its await of renameChat
newChat ==
  LET id == ChatIdOf(now)
      ls == AfterChatIdEffect(loads, chatId, id)
  IN /\ events < MaxEvents
     /\ events' = events + 1
     /\ Len(sessions) < MaxSessions
     /\ InFlight + 1 + (BagCardinality(ls) - BagCardinality(loads)) <= MaxCalls
     /\ BagCardinality(ls) <= MaxLoads
     /\ BagCardinality(renames) < MaxRenames
     /\ chatId' = id
     /\ messages' = <<>>
     /\ sessions' = Append(sessions, [id |-> id, name |-> defaultName])
     /\ renames' = renames (+) SetToBag({[id |-> id, name |-> defaultName]})
     /\ loads' = ls
     /\ exchanges' = IF exchanges = NotCounted THEN exchanges
                     ELSE [id |-> id, ok |-> 0, clean |-> TRUE]
     /\ UNCHANGED << now, input, loading, stats, service, listPending, deletes, sends >>

\* switchChat(id) up to its await of loadChat, for an id of the session list
switchChat(id) ==
  LET ls == AfterChatIdEffect(loads (+) SetToBag({[id |-> id, by |-> "switchChat"]}),
                              chatId, id)
  IN /\ id \in SessionIds
     /\ events < MaxEvents
     /\ events' = events + 1
     /\ InFlight + (BagCardinality(ls) - BagCardinality(loads)) <= MaxCalls
     /\ BagCardinality(ls) <= MaxLoads
     /\ chatId' = id
     /\ loads' = ls
     /\ UNCHANGED << now, messages, sessions, input, loading, stats, service,
                     listPending, renames, deletes, sends, exchanges >>

\* sessions after prev.map(s => (s.id === id ? { ...s, name: newName } : s))
Renamed(prev, id, newName) ==
  [i \in 1..Len(prev) |-> IF prev[i].id = id THEN [prev[i] EXCEPT !.name = newName]
                                              ELSE prev[i]]

\* renameChat resolves: the await in newChat and updateChatName has no continuation
RenameResolved(r) ==
  /\ BagIn(r, renames)
  /\ renames' = renames (-) SetToBag({r})
  /\ savedName' = PersistRename(savedName, r.id, r.name)
  /\ UNCHANGED << events, now, ui, savedLog, listPending, loads, deletes, sends, exchanges >>

RenameRejected(r) ==
  /\ BagIn(r, renames)
  /\ renames' = renames (-) SetToBag({r})
  /\ UNCHANGED << events, now, ui, service, listPending, loads, deletes, sends, exchanges >>

\* deleteChat(id) up to its await: the closure holds the chatId of this render
deleteChat(id) ==
  /\ id \in SessionIds
  /\ events < MaxEvents
  /\ events' = events + 1
  /\ InFlight < MaxCalls
  /\ BagCardinality(deletes) < MaxDeletes
  /\ deletes' = deletes (+) SetToBag({[id |-> id, chatId |-> chatId]})
  /\ UNCHANGED << now, ui, service, listPending, loads, renames, sends, exchanges >>

\* prev.filter(s => s.id !== id)
RECURSIVE Without(_, _)
Without(prev, id) ==
  IF prev = <<>> THEN <<>>
  ELSE (IF Head(prev).id = id THEN <<>> ELSE <<Head(prev)>>) \o Without(Tail(prev), id)

\* if (chatId === id) of deleteChat, on the chatId the closure d holds
DeletesActive(d) == d.chatId = d.id

\* the service deleted d.id; deleteChat continues after its await
DeleteResolved(d) ==
  /\ BagIn(d, deletes)
  /\ deletes' = deletes (-) SetToBag({d})
  /\ savedLog' = PersistDeleteLog(savedLog, d.id)
  /\ savedName' = PersistDeleteName(savedName, d.id)
  /\ sessions' = Without(sessions, d.id)
  /\ IF DeletesActive(d)
     THEN chatId' = NoChat /\ messages' = <<>>
     ELSE UNCHANGED << chatId, messages >>
  /\ UNCHANGED << events, now, input, loading, stats, listPending, loads, renames, sends,
                  exchanges >>

\* the service call rejects: deleteChat ends at its await
DeleteRejected(d) ==
  /\ BagIn(d, deletes)
  /\ deletes' = deletes (-) SetToBag({d})
  /\ UNCHANGED << events, now, ui, service, listPending, loads, renames, sends, exchanges >>

----------------------------------------------------------------------------
(* sendMessage *)

\* the early returns, had the first tested the input without trimming it
SendAllowedUntrimmed(text, id) == text # <<>> /\ id # NoChat

\* the two early returns: if (!input.trim()) return; if (!chatId) return alert(...)
SendAllowed(text, id) == Trim(text) # <<>> /\ id # NoChat

\* input.trim().slice(0, 40).replace(/\n/g, ' ')
AutoName(text) == ReplaceNewlines(Slice(Trim(text), NameMax))

\* if (messages.length === 0) ... if (trimmed) updateChatName(chatId, trimmed)
AutoRenames(log, text) == Len(log) = 0 /\ AutoName(text) # <<>>

\* onChange={(e) => setInput(e.target.value)} left the box holding text, and
\* Enter or the Send button runs sendMessage up to its await of fetch
sendMessage(text) ==
  IF ~SendAllowed(text, chatId)
  THEN /\ events < MaxEvents
       /\ events' = events + 1
       /\ input' = text
       /\ UNCHANGED << now, chatId, messages, sessions, loading, stats, service,
                       inflight, exchanges >>
  ELSE LET userMessage == Created(Message("user", text, now), chatId)
           newMessages == Append(messages, userMessage)
       IN /\ events < MaxEvents
          /\ events' = events + 1
          /\ Len(messages) + 2 <= MaxLog
          /\ InFlight + (IF AutoRenames(messages, text) THEN 2 ELSE 1) <= MaxCalls
          /\ Len(sends) < MaxSends
          /\ messages' = newMessages
          /\ input' = <<>>
          /\ loading' = TRUE
          /\ IF AutoRenames(messages, text)
             THEN /\ BagCardinality(renames) < MaxRenames
                  /\ sessions' = Renamed(sessions, chatId, AutoName(text))
                  /\ renames' = renames (+)
                                  SetToBag({[id |-> chatId, name |-> AutoName(text)]})
             ELSE UNCHANGED << sessions, renames >>
          /\ sends' = Append(sends, [ id |-> chatId,
                                      newMessages |-> newMessages,
                                      start |-> now,
                                      stage |-> "fetch",
                                      updatedMessages |-> <<>>,
                                      end |-> NotRead,
                                      hasBody |-> FALSE ])
          /\ UNCHANGED << now, chatId, stats, service, listPending, loads, deletes,
                          exchanges >>

\* data.message ? {content: data.message.content} : {content: '[Error: No message returned]'}
AssistantContent(hasBody, body) == IF hasBody THEN body ELSE ErrNoMessage

\* fetch and res.json() resolve; the try block runs up to its await of saveChat
FetchReplied(i, hasBody, body) ==
  /\ i \in 1..Len(sends)
  /\ sends[i].stage = "fetch"
  /\ LET s == sends[i]
         assistantMessage ==
           Created(Message("assistant", AssistantContent(hasBody, body), now), s.id)
         updatedMessages == Append(s.newMessages, assistantMessage)
     IN /\ messages' = updatedMessages
        /\ sends' = [sends EXCEPT ![i] = [s EXCEPT !.stage = "save",
                                                   !.updatedMessages = updatedMessages,
                                                   !.end = now,
                                                   !.hasBody = hasBody]]
  /\ UNCHANGED << events, now, chatId, sessions, input, loading, stats, service, listPending,
                  loads, renames, deletes, exchanges >>

\* the catch block, had it appended the sentinel to the messages of the current
\* render instead of the newMessages of the call
CatchBlockOnState(i) ==
  LET s == sends[i]
      errorMessage == Created(Message("assistant", ErrFetch, now), s.id)
      updatedMessages == Append(messages, errorMessage)
  IN /\ messages' = updatedMessages
     /\ sends' = [sends EXCEPT ![i] = [s EXCEPT !.stage = "saveInCatch",
                                                !.updatedMessages = updatedMessages]]

\* the catch block up to its await of saveChat
CatchBlock(i) ==
  LET s == sends[i]
      errorMessage == Created(Message("assistant", ErrFetch, now), s.id)
      updatedMessages == Append(s.newMessages, errorMessage)
  IN /\ messages' = updatedMessages
     /\ sends' = [sends EXCEPT ![i] = [s EXCEPT !.stage = "saveInCatch",
                                                !.updatedMessages = updatedMessages]]

\* fetch rejects
FetchFailed(i) ==
  /\ i \in 1..Len(sends)
  /\ sends[i].stage = "fetch"
  /\ CatchBlock(i)
  /\ UNCHANGED << events, now, chatId, sessions, input, loading, stats, service, listPending,
                  loads, renames, deletes, exchanges >>

\* counting stops above the number of exchanges a log of MaxLog messages holds
CountCap == (MaxLog \div 2) + 1

\* the exchanges of the session created last after one more of session id ended:
\* counted when it got a message body and its saveChat resolved
Ended(ex, id, good) ==
  IF ex = NotCounted \/ id # ex.id THEN ex
  ELSE IF good THEN [ex EXCEPT !.ok = IF @ < CountCap THEN @ + 1 ELSE @]
       ELSE [ex EXCEPT !.clean = FALSE]

\* the saveChat of the try block resolves: setStats, then setLoading(false)
SaveResolved(i) ==
  /\ i \in 1..Len(sends)
  /\ sends[i].stage = "save"
  /\ LET s == sends[i]
     IN /\ savedLog' = PersistSave(savedLog, s.id, s.updatedMessages)
        /\ stats' = ComputeStats(s.newMessages, s.updatedMessages,
                                  s.updatedMessages[Len(s.updatedMessages)], s.end - s.start)
        /\ exchanges' = Ended(exchanges, s.id, s.hasBody)
  /\ loading' = FALSE
  /\ sends' = RemoveAt(sends, i)
  /\ UNCHANGED << events, now, chatId, messages, sessions, input, savedName, listPending, loads,
                  renames, deletes >>

\* the saveChat of the try block rejects: control passes to the catch block
SaveRejected(i) ==
  /\ i \in 1..Len(sends)
  /\ sends[i].stage = "save"
  /\ CatchBlock(i)
  /\ UNCHANGED << events, now, chatId, sessions, input, loading, stats, service, listPending,
                  loads, renames, deletes, exchanges >>

\* the saveChat of the catch block resolves: setLoading(false)
CatchSaveResolved(i) ==
  /\ i \in 1..Len(sends)
  /\ sends[i].stage = "saveInCatch"
  /\ savedLog' = PersistSave(savedLog, sends[i].id, sends[i].updatedMessages)
  /\ exchanges' = Ended(exchanges, sends[i].id, FALSE)
  /\ loading' = FALSE
  /\ sends' = RemoveAt(sends, i)
  /\ UNCHANGED << events, now, chatId, messages, sessions, input, stats, savedName, listPending,
                  loads, renames, deletes >>

\* the saveChat of the catch block rejects: sendMessage ends by the exception,
\* setLoading(false) is not reached
CatchSaveRejected(i) ==
  /\ i \in 1..Len(sends)
  /\ sends[i].stage = "saveInCatch"
  /\ exchanges' = Ended(exchanges, sends[i].id, FALSE)
  /\ sends' = RemoveAt(sends, i)
  /\ UNCHANGED << events, now, ui, service, listPending, loads, renames, deletes >>

----------------------------------------------------------------------------
(* Specification *)

Next ==
  \/ Tick
  \/ ListResolved
  \/ ListRejected
  \/ \E l \in BagToSet(loads) : LoadResolved(l)
  \/ \E l \in BagToSet(loads) : LoadRejected(l)
  \/ newChat
  \/ \E id \in IDs : switchChat(id)
  \/ \E r \in BagToSet(renames) : RenameResolved(r)
  \/ \E r \in BagToSet(renames) : RenameRejected(r)
  \/ \E id \in IDs : deleteChat(id)
  \/ \E d \in BagToSet(deletes) : DeleteResolved(d)
  \/ \E d \in BagToSet(deletes) : DeleteRejected(d)
  \/ \E text \in Inputs : sendMessage(text)
  \/ \E i \in 1..Len(sends) : \E hasBody \in BOOLEAN : \E body \in Replies :
        FetchReplied(i, hasBody, body)
  \/ \E i \in 1..Len(sends) : FetchFailed(i)
  \/ \E i \in 1..Len(sends) : SaveResolved(i)
  \/ \E i \in 1..Len(sends) : SaveRejected(i)
  \/ \E i \in 1..Len(sends) : CatchSaveResolved(i)
  \/ \E i \in 1..Len(sends) : CatchSaveRejected(i)

Spec == Init /\ [][Next]_vars

\* the same program, with the history of completed exchanges kept
InitCounted ==
  /\ events = 0
  /\ now = 0
  /\ chatId = NoChat
  /\ messages = <<>>
  /\ sessions = <<>>
  /\ input = <<>>
  /\ loading = FALSE
  /\ stats = InitialStats
  /\ savedLog = [i \in IDs |-> <<>>]
  /\ savedName = [i \in IDs |-> NoName]
  /\ listPending = TRUE
  /\ loads = EmptyBag
  /\ renames = EmptyBag
  /\ deletes = EmptyBag
  /\ sends = <<>>
  /\ exchanges = [id |-> NoChat, ok |-> 0, clean |-> TRUE]

SpecCounted == InitCounted /\ [][Next]_vars

\* the same program in the runs in which no call to the persistence service
\* rejects; the backend may still fail
NextReliable ==
  \/ Tick
  \/ ListResolved
  \/ \E l \in BagToSet(loads) : LoadResolved(l)
  \/ newChat
  \/ \E id \in IDs : switchChat(id)
  \/ \E r \in BagToSet(renames) : RenameResolved(r)
  \/ \E id \in IDs : deleteChat(id)
  \/ \E d \in BagToSet(deletes) : DeleteResolved(d)
  \/ \E text \in Inputs : sendMessage(text)
  \/ \E i \in 1..Len(sends) : \E hasBody \in BOOLEAN : \E body \in Replies :
        FetchReplied(i, hasBody, body)
  \/ \E i \in 1..Len(sends) : FetchFailed(i)
  \/ \E i \in 1..Len(sends) : SaveResolved(i)
  \/ \E i \in 1..Len(sends) : CatchSaveResolved(i)

SpecReliable == Init /\ [][NextReliable]_vars

----------------------------------------------------------------------------
(* The token estimator alone, on every text of bounded length *)

Chars == {"a", " ", "\n"}

Texts == UNION { [1..n -> Chars] : n \in 0..MaxText }

\* the component holds a text and nothing is in flight
InitEstimate ==
  /\ events = 0
  /\ now = 0
  /\ chatId = NoChat
  /\ messages = <<>>
  /\ sessions = <<>>
  /\ input \in Texts
  /\ loading = FALSE
  /\ stats = InitialStats
  /\ savedLog = [i \in IDs |-> <<>>]
  /\ savedName = [i \in IDs |-> NoName]
  /\ listPending = FALSE
  /\ loads = EmptyBag
  /\ renames = EmptyBag
  /\ deletes = EmptyBag
  /\ sends = <<>>
  /\ exchanges = NotCounted

\* const totalTokens = estimateTokens(totalText), shown by setStats, for the
\* text held
Estimate ==
  /\ events = 0
  /\ events' = 1
  /\ stats' = [stats EXCEPT !.totalTokens = estimateTokens(input)]
  /\ UNCHANGED << now, chatId, messages, sessions, input, loading, service, inflight,
                  exchanges >>

NextEstimate == Estimate

SpecEstimate == InitEstimate /\ [][NextEstimate]_vars

----------------------------------------------------------------------------
(* Helpers of the properties *)

IsPrefix(s, t) == Len(s) <= Len(t) /\ SubSeq(t, 1, Len(s)) = s

\* user, assistant, user, ... from the first message on
Alternates(log) ==
  \A k \in 1..Len(log) : log[k].role = (IF k % 2 = 1 THEN "user" ELSE "assistant")

NonDecreasing(log) ==
  \A k \in 1..(Len(log) - 1) : log[k].timestamp <= log[k + 1].timestamp

\* the sendMessage calls awaiting the reply of the backend
Requests == { i \in 1..Len(sends) : sends[i].stage = "fetch" }

----------------------------------------------------------------------------
(* Properties *)

\* C1: whenever the active session id is empty, the in-memory message log is
\* empty.
C1_NoSessionNoMessages == chatId = NoChat => messages = <<>>

\* C2: once every exchange started in a freshly created session has completed
\* successfully and nothing is in flight, the log of that session, still active,
\* holds two messages per exchange, alternates user/assistant from a user message
\* on, and its timestamps never decrease.
C2_FreshLogShape ==
  ( /\ exchanges.id = chatId
    /\ chatId # NoChat
    /\ exchanges.clean
    /\ sends = <<>>
    /\ loads = EmptyBag )
  => /\ Len(messages) = 2 * exchanges.ok
     /\ Alternates(messages)
     /\ NonDecreasing(messages)

\* C3: at most one inference request is in flight at any time.
C3_SingleRequest == Cardinality(Requests) <= 1

\* C4: every step that overwrites the stored log of a session with a saved log
\* keeps the log stored before as a prefix of the new one.
C4_SaveExtendsStored ==
  [][ \A id \in IDs :
        (savedLog'[id] # savedLog[id] /\ savedLog'[id] # <<>>)
          => IsPrefix(savedLog[id], savedLog'[id]) ]_vars

\* C5: while a session is active, the in-memory log is the log stored for it,
\* followed by at most one more message, the user message of the exchange that
\* awaits its reply.
C5_MemoryIsStoredPlusOne ==
  chatId # NoChat =>
    \/ messages = savedLog[chatId]
    \/ /\ Len(messages) = Len(savedLog[chatId]) + 1
       /\ IsPrefix(savedLog[chatId], messages)
       /\ messages[Len(messages)].role = "user"
       /\ \E i \in Requests : sends[i].newMessages = messages

\* the step in which the fetch of call i fails: from awaiting the reply to
\* awaiting the saveChat of the catch block, performance.now() never read again
FetchFailureStep(i) ==
  /\ i \in Requests
  /\ Len(sends') = Len(sends)
  /\ sends'[i].stage = "saveInCatch"

\* the step in which the saveChat of the catch block of call i resolves after a
\* failed fetch
FailureSavedStep(i) ==
  /\ i \in 1..Len(sends)
  /\ sends[i].stage = "saveInCatch"
  /\ sends[i].end = NotRead
  /\ sends' = RemoveAt(sends, i)
  /\ savedLog' # savedLog

\* C6: when the inference request of a sendMessage fails, the log becomes the log
\* the call sent, which ends with its user message, plus one assistant message
\* "[Error: Unable to fetch response]"; the call leaves stats as they are, and it
\* asks the persistence service to save that log under its session, which is the
\* log stored once the save resolves.
C6_FetchFailureSentinel ==
  [][ \A i \in 1..Len(sends) :
        /\ FetchFailureStep(i) =>
             /\ Len(messages') = Len(sends[i].newMessages) + 1
             /\ SubSeq(messages', 1, Len(messages') - 1) = sends[i].newMessages
             /\ sends[i].newMessages[Len(sends[i].newMessages)].role = "user"
             /\ messages'[Len(messages')].role = "assistant"
             /\ messages'[Len(messages')].content =
                  <<"[Error:", " ", "Unable", " ", "to", " ", "fetch", " ", "response]">>
             /\ stats' = stats
             /\ sends'[i].id = sends[i].id
             /\ sends'[i].updatedMessages = messages'
        /\ FailureSavedStep(i) =>
             /\ savedLog'[sends[i].id] = sends[i].updatedMessages
             /\ stats' = stats ]_vars

\* C6 happens: the fetch of a call has failed, the log on screen is the log it
\* sent plus the sentinel, its saveChat is awaited, and the statistics of an
\* earlier exchange are still shown
C6_Witness ==
  \E i \in 1..Len(sends) :
    /\ sends[i].stage = "saveInCatch"
    /\ sends[i].end = NotRead
    /\ messages = sends[i].updatedMessages
    /\ stats # InitialStats

\* C7: when the loadChat that switchChat awaits fails, the in-memory message log
\* is empty afterwards.
C7_FailedLoadEmptiesLog ==
  [][ \A l \in BagToSet(loads) :
        (l.by = "switchChat" /\ LoadRejected(l)) => messages' = <<>> ]_vars

\* C8: once no sendMessage is between its first and its last step, the pending
\* indicator is off.
C8_PendingClearedAtEnd == sends = <<>> => ~loading

\* C9: when the persistence delete of id has resolved, deleteChat clears the
\* active id and the message log if id is the session active at that moment, and
\* leaves both as they are if it is not.
C9_DeleteClearsActiveOnly ==
  [][ \A d \in BagToSet(deletes) :
        DeleteResolved(d) =>
          IF d.id = chatId
          THEN chatId' = NoChat /\ messages' = <<>>
          ELSE UNCHANGED << chatId, messages >> ]_vars

\* C10: a sendMessage whose input is empty after trimming, or that runs with no
\* active session, changes neither the message log, the session list, the active
\* id, the pending flag, the stats nor the stored data, and issues no call.
C10_RejectedSendIsNoOp ==
  [][ \A text \in Inputs :
        (sendMessage(text) /\ (Trim(text) = <<>> \/ chatId = NoChat))
          => UNCHANGED << messages, sessions, chatId, loading, stats, savedLog,
                          savedName, listPending, loads, renames, deletes, sends >> ]_vars

\* C10 happens: with a session active and a log on screen, the input box still
\* holds the blank text of a sendMessage that returned early
C10_Witness ==
  /\ chatId # NoChat
  /\ messages # <<>>
  /\ input = <<" ">>

\* C11: the auto-rename of a sendMessage names the session by the first 40
\* characters of the trimmed input with newlines replaced by spaces, and a
\* sendMessage in a session whose stored log holds messages renames nothing.
C11_AutoRenameOnlyFirst ==
  [][ \A text \in Inputs :
        (sendMessage(text) /\ SendAllowed(text, chatId)) =>
          /\ AutoRenames(messages, text) =>
                /\ \A k \in 1..Len(sessions') :
                      sessions'[k].id = chatId =>
                        sessions'[k].name = ReplaceNewlines(Slice(Trim(text), 40))
                /\ renames' = renames (+) SetToBag({[id |-> chatId,
                                 name |-> ReplaceNewlines(Slice(Trim(text), 40))]})
          /\ savedLog[chatId] # <<>> => UNCHANGED << sessions, renames >> ]_vars

\* the number of non-empty tokens of a text split on runs of whitespace
RECURSIVE NonEmptyTokens(_)
NonEmptyTokens(s) ==
  IF s = <<>> THEN 0
  ELSE IF Head(s) \in Whitespace THEN NonEmptyTokens(Tail(s))
  ELSE IF Len(s) > 1 /\ s[2] \notin Whitespace THEN NonEmptyTokens(Tail(s))
  ELSE 1 + NonEmptyTokens(Tail(s))

\* round(k / 0.75) = floor(4k/3 + 1/2)
RoundedOverThreeQuarters(k) == (8 * k + 3) \div 6

\* C12: the estimate shown for a text is round(k / 0.75), k the number of
\* non-empty whitespace-separated tokens of the text; the estimate of the empty
\* text is 0 and the estimate of "a b c d" is 5.
C12_EstimateCountsNonEmptyTokens ==
  events > 0 =>
    /\ stats.totalTokens = RoundedOverThreeQuarters(NonEmptyTokens(input))
    /\ input = <<>> => stats.totalTokens = 0
    /\ input = <<"a", " ", "a", " ", "a", " ", "a">> => stats.totalTokens = 5

\* the step in which the backend answers call i with a reply that has no
\* message field
NoMessageStep(i) ==
  /\ i \in Requests
  /\ Len(sends') = Len(sends)
  /\ sends'[i].stage = "save"
  /\ ~sends'[i].hasBody

\* the step in which the saveChat of call i resolves after such a reply
NoMessageSavedStep(i) ==
  /\ i \in 1..Len(sends)
  /\ sends[i].stage = "save"
  /\ ~sends[i].hasBody
  /\ sends' = RemoveAt(sends, i)

\* C13: on a reply with no message field the log becomes the log the call sent
\* plus one assistant message "[Error: No message returned]", that log is given
\* to saveChat under the session of the call, and once the save resolves it is
\* the stored log and stats are updated: totalTokens is the estimate of the
\* contents of that log, sentinel included, and contextTokens the estimate of
\* the serialized log before the reply.
C13_NoMessageSentinelAndStats ==
  [][ \A i \in 1..Len(sends) :
        /\ NoMessageStep(i) =>
             /\ Len(messages') = Len(sends[i].newMessages) + 1
             /\ SubSeq(messages', 1, Len(messages') - 1) = sends[i].newMessages
             /\ messages'[Len(messages')].role = "assistant"
             /\ messages'[Len(messages')].content =
                  <<"[Error:", " ", "No", " ", "message", " ", "returned]">>
             /\ sends'[i].id = sends[i].id
             /\ sends'[i].updatedMessages = messages'
        /\ NoMessageSavedStep(i) =>
             /\ savedLog'[sends[i].id] = sends[i].updatedMessages
             /\ stats'.totalTokens =
                  estimateTokens(JoinContents(sends[i].newMessages) \o <<" ">> \o
                                 <<"[Error:", " ", "No", " ", "message", " ", "returned]">>)
             /\ stats'.totalTokens > estimateTokens(JoinContents(sends[i].newMessages))
             /\ stats'.contextTokens = estimateTokens(JsonStringify(sends[i].newMessages)) ]_vars

\* C13 happens: the exchange of the active session ended with the sentinel of a
\* reply without message as the last stored message, and stats show the
\* estimate of that log
C13_Witness ==
  /\ chatId # NoChat
  /\ sends = <<>>
  /\ messages # <<>>
  /\ messages[Len(messages)].content = ErrNoMessage
  /\ savedLog[chatId] = messages
  /\ stats.totalTokens = estimateTokens(JoinContents(messages))
  /\ stats.contextTokens =
       estimateTokens(JsonStringify(SubSeq(messages, 1, Len(messages) - 1)))

\* a call to the persistence service is in flight
PersistencePending ==
  \/ listPending
  \/ loads # EmptyBag
  \/ renames # EmptyBag
  \/ deletes # EmptyBag
  \/ \E i \in 1..Len(sends) : sends[i].stage \in {"save", "saveInCatch"}

\* the entries of a session list
Entries(list) == { list[k] : k \in 1..Len(list) }

\* C14: in the runs in which no persistence call fails, whenever no persistence
\* call is pending the ids and names of the in-memory session list are those
\* the persistence service records.
C14_SessionListMatchesService ==
  ~PersistencePending => Entries(sessions) = Entries(PersistList(savedName))

\* C15: newChat makes the new session active, empties the message log and
\* appends the session under the name "New Chat" to the session list while its
\* renameChat call is still in flight, and the failure of that call changes
\* none of the three.
C15_CreateIsImmediateAndKept ==
  [][ /\ newChat =>
           /\ chatId' # NoChat
           /\ chatId' = ChatIdOf(now)
           /\ messages' = <<>>
           /\ Len(sessions') = Len(sessions) + 1
           /\ SubSeq(sessions', 1, Len(sessions)) = sessions
           /\ sessions'[Len(sessions')] =
                [id |-> chatId', name |-> <<"N", "e", "w", " ", "C", "h", "a", "t">>]
           /\ BagIn([id |-> chatId', name |-> <<"N", "e", "w", " ", "C", "h", "a", "t">>],
                    renames')
           /\ savedName' = savedName
      /\ \A r \in BagToSet(renames) :
           RenameRejected(r) => UNCHANGED << chatId, messages, sessions >> ]_vars

\* C15 happens: the renameChat of newChat has failed, the service records no
\* name for the new session, and the session is still active, with an empty log,
\* and still in the session list under its placeholder name
C15_Witness ==
  /\ chatId # NoChat
  /\ renames = EmptyBag
  /\ savedName[chatId] = NoName
  /\ messages = <<>>
  /\ [id |-> chatId, name |-> defaultName] \in Entries(sessions)

\* no two entries of a session list have the same id
UniqueIds(list) ==
  \A j, k \in 1..Len(list) : j # k => list[j].id # list[k].id

\* C16: no two entries of the session list ever have the same id, and a step
\* that neither replaces the list by the stored one nor adds or removes an
\* entry leaves the id of every entry as it is.
C16_SessionIdsUnique ==
  [][ /\ UniqueIds(sessions')
      /\ (Len(sessions') = Len(sessions) /\ ~ListResolved) =>
            \A k \in 1..Len(sessions) : sessions'[k].id = sessions[k].id ]_vars

\* C17: whenever a sendMessage awaits the reply of the backend, the pending
\* indicator is on.
C17_PendingWhileRequested == Requests # {} => loading

\* C18: while the active session stays the same and is not deleted, a step
\* keeps every message of the in-memory log in its place, adding messages at
\* the end only; and the failure of the saveChat that follows a backend reply
\* leaves the in-memory log, which ends with that reply, as it is.
C18_LogOnlyGrows ==
  [][ /\ (chatId # NoChat /\ chatId' = chatId
             /\ ~(\E d \in BagToSet(deletes) : d.id = chatId /\ DeleteResolved(d)))
            => IsPrefix(messages, messages')
      /\ \A i \in 1..Len(sends) :
           (sends[i].id = chatId /\ sends[i].updatedMessages = messages /\ SaveRejected(i))
             => messages' = messages ]_vars

\* C20: a non-empty active session id is the id of an entry of the session
\* list.
C20_ActiveIsListed == chatId # NoChat => chatId \in SessionIds

\* every message of a log was made by a sendMessage call of session id
MadeIn(log, id) == \A k \in 1..Len(log) : log[k].session = id

\* C19: the message list a sendMessage call sends to the backend holds only
\* messages made by calls of the session the call runs in, and the log stored
\* under a session id holds only messages made by calls of that session.
C19_SessionIsolation ==
  /\ \A i \in 1..Len(sends) : MadeIn(sends[i].newMessages, sends[i].id)
  /\ \A id \in IDs : MadeIn(savedLog[id], id)

====
